---- MODULE Spec2Model ----
(***************************************************************************)
(* A model of the PCD8544 display driver (src/src/lib.rs): the framebuffer *)
(* and its orientation transform, the text renderer, and the command/data  *)
(* protocol spoken to the controller over the mode-select line, the reset  *)
(* line and the SPI bus.                                                   *)
(*                                                                         *)
(* Representation of usize: a value of type usize is the integer it        *)
(* denotes; the result of a subtraction that wraps (release builds) is     *)
(* kept as the negative number n that stands for 2^w + n, so that it       *)
(* compares above every in-range coordinate (see UGe).                     *)
(***************************************************************************)
EXTENDS Integers, Sequences, FiniteSets, TLC

\* ------------------------------------------------------------ bounds

\* Number of public calls made on the handle after construction.
MaxOps == 2

\* Largest retry count given to new_pin.
MaxRetries == 3

\* ------------------------------------------------- program constants

LCDWIDTH == 84
LCDHEIGHT == 48
BUFFER_LEN == (LCDWIDTH * LCDHEIGHT) \div 8

\* ------------------------------------------------------ u8 arithmetic

RECURSIVE BitAnd(_, _)
BitAnd(a, b) ==
    IF a = 0 \/ b = 0 THEN 0
    ELSE ((a % 2) * (b % 2)) + 2 * BitAnd(a \div 2, b \div 2)

RECURSIVE BitOr(_, _)
BitOr(a, b) ==
    IF a = 0 THEN b
    ELSE IF b = 0 THEN a
    ELSE (IF (a % 2) + (b % 2) > 0 THEN 1 ELSE 0) + 2 * BitOr(a \div 2, b \div 2)

\* !b on a u8
BitNot(b) == 255 - b

\* 1 << n on a u8, n < 8
Shl1(n) == 2 ^ n

\* bit n of byte b
Bit(b, n) == (b \div (2 ^ n)) % 2

\* ----------------------------------------------------- usize compare

\* a >= b for a usize a that may be a wrapped difference (negative here,
\* 2^w + a in the program) and an in-range constant b.
UGe(a, b) == a < 0 \/ a >= b

\* --------------------------------------------------------- the state

VARIABLES
    overflow_checks,  \* build profile: TRUE = arithmetic overflow panics (debug), FALSE = it wraps (release)
    buffer,           \* PCD8544.buffer
    orient,           \* PCD8544.orient
    char_spacing,     \* PCD8544.char_spacing
    inverse,          \* PCD8544.inverse
    dc,               \* level of the mode-select line PCD8544.dc: 0 = command, 1 = data
    rst,              \* level of the reset line PCD8544.rst
    ctrl,             \* the controller at the other end of PCD8544.spi
    panicked,         \* the last call panicked (the thread unwinds: no further call)
    call,             \* the last call made: its name, arguments and result
    pre,              \* the handle's fields as they were when the last call began
    touched,          \* the buffer writes of the last call: how many, and the least and greatest index
    placed,           \* the print_char invocations of the last call, in order
    wire,             \* the line and bus operations the last call performed, in order
    hist              \* the calls made on the handle since construction, in order

vars == <<overflow_checks, buffer, orient, char_spacing, inverse, dc, rst, ctrl,
          panicked, call, pre, touched, placed, wire, hist>>

Orientations ==
    { [kind |-> k, flip |-> f] : k \in {"Landscape", "Portrait"}, f \in BOOLEAN }

ZeroBuffer == [i \in 0 .. (BUFFER_LEN - 1) |-> 0]

NoWrites == [n |-> 0, lo |-> 0, hi |-> 0]

\* The fields of the handle, as pre keeps them.
Fields ==
    [buffer |-> buffer, orient |-> orient, char_spacing |-> char_spacing,
     inverse |-> inverse]

\* The handle as the methods see it, with what the running call has done
\* so far: panicked (the call is unwinding), touched (the writes made),
\* placed (the print_char invocations made).
Self ==
    [buffer |-> buffer, orient |-> orient, char_spacing |-> char_spacing,
     inverse |-> inverse, panicked |-> FALSE, touched |-> NoWrites, placed |-> <<>>]

\* ------------------------------------------- framebuffer & orientation

\* The match of set_pixel: the physical coordinates and whether one of the
\* two subtractions underflows.
Transform(o, x, y) ==
    CASE o.kind = "Landscape" /\ ~o.flip ->
            [px |-> x, py |-> y, underflow |-> FALSE]
      [] o.kind = "Portrait" /\ ~o.flip ->
            [px |-> LCDWIDTH - 1 - y, py |-> x, underflow |-> y > LCDWIDTH - 1]
      [] o.kind = "Landscape" /\ o.flip ->
            [px |-> y, py |-> LCDHEIGHT - 1 - x, underflow |-> x > LCDHEIGHT - 1]
      [] o.kind = "Portrait" /\ o.flip ->
            [px |-> LCDWIDTH - 1 - x, py |-> LCDHEIGHT - 1 - y,
             underflow |-> x > LCDWIDTH - 1 \/ y > LCDHEIGHT - 1]

\* buffer[i] = b; an index outside the array panics.
Wrote(w, i) ==
    IF w.n = 0 THEN [n |-> 1, lo |-> i, hi |-> i]
    ELSE [n  |-> w.n + 1,
          lo |-> IF i < w.lo THEN i ELSE w.lo,
          hi |-> IF i > w.hi THEN i ELSE w.hi]

StoreByte(self, i, b) ==
    IF i >= 0 /\ i < BUFFER_LEN
    THEN [self EXCEPT !.buffer[i] = b, !.touched = Wrote(@, i)]
    ELSE [self EXCEPT !.panicked = TRUE, !.touched = Wrote(@, i)]

\* set_pixel with the byte assigned the mask instead of or-ed with it.
set_pixel_assign(self, x, y, value) ==
    IF self.panicked THEN self
    ELSE
    LET t == Transform(self.orient, x, y) IN
    IF t.underflow /\ overflow_checks THEN [self EXCEPT !.panicked = TRUE]
    ELSE IF UGe(t.px, LCDWIDTH) \/ UGe(t.py, LCDHEIGHT) THEN self
    ELSE
    LET bv == Shl1(t.py % 8)
        i  == t.px + (t.py \div 8) * LCDWIDTH
    IN IF value # self.inverse
       THEN StoreByte(self, i, bv)
       ELSE StoreByte(self, i, BitAnd(self.buffer[i], BitNot(bv)))

set_pixel(self, x, y, value) ==
    IF self.panicked THEN self
    ELSE
    LET t == Transform(self.orient, x, y) IN
    IF t.underflow /\ overflow_checks THEN [self EXCEPT !.panicked = TRUE]
    ELSE IF UGe(t.px, LCDWIDTH) \/ UGe(t.py, LCDHEIGHT) THEN self
    ELSE
    LET bv == Shl1(t.py % 8)
        i  == t.px + (t.py \div 8) * LCDWIDTH
    IN IF value # self.inverse
       THEN StoreByte(self, i, BitOr(self.buffer[i], bv))
       ELSE StoreByte(self, i, BitAnd(self.buffer[i], BitNot(bv)))

\* clear filling the buffer with the "off" value of the inverse flag.
clear_to_background(self) ==
    [self EXCEPT !.buffer = [i \in 0 .. (BUFFER_LEN - 1) |->
                                IF self.inverse THEN 255 ELSE 0]]

clear(self) == [self EXCEPT !.buffer = ZeroBuffer]

\* ------------------------------------------------------ text renderer

\* The font asset terminus6x12 (mod terminus6x12, not among the sources):
\* the cell size, the codepoints in glyph order, and HEIGHT bytes per
\* glyph, glyph-major, the most significant bit the leftmost pixel.  A
\* glyph is WIDTH = 6 pixels wide: the two low bits of its rows are clear.
WIDTH == 6
HEIGHT == 12

ENCODING == <<32, 65, 66>>

BITMAP ==
    <<  0,   0,   0,   0,   0,   0,   0,   0,   0,   0,   0,   0,
        0,  32,  80, 136, 136, 132, 252, 132, 132, 132,   0,   4,
      128, 248, 132, 132, 248, 132, 132, 132, 248,   0,   0, 252 >>

\* c as u16
AsU16(c) == c % 65536

\* ENCODING.iter().position(|&v| v == c as u16): the first index (from 0)
\* that holds the value, or None (here -1).
Position(c) ==
    LET hits == { k \in 0 .. (Len(ENCODING) - 1) : ENCODING[k + 1] = AsU16(c) }
    IN IF hits = {} THEN -1
       ELSE CHOOSE k \in hits : \A j \in hits : k <= j

\* The match on position(): Some(k) => k, None => 0xFFFD.
GlyphIndex(c) == IF Position(c) >= 0 THEN Position(c) ELSE 65533

\* m after k shifts of m >>= 1 from 0x80
Mask(k) == 128 \div (2 ^ k)

\* for i in lo..=hi { st = body(st, i) }, left as soon as ended(st) holds
\* (a break, or a panic unwinding).  The iterations are composed in order;
\* the range is split in halves only to keep the evaluation shallow.
RECURSIVE Loop(_, _, _, _, _)
Loop(body(_, _), ended(_), lo, hi, st) ==
    IF lo > hi \/ ended(st) THEN st
    ELSE IF lo = hi THEN body(st, lo)
    ELSE LET mid == (lo + hi) \div 2
             left == Loop(body, ended, lo, mid, st)
         IN IF ended(left) THEN left
            ELSE Loop(body, ended, mid + 1, hi, left)

Panicked(self) == self.panicked

\* One row of print_char: BITMAP[r + index * HEIGHT] (a panic when the index
\* is outside the table), then set_pixel for each of its 8 bits.
PrintCharRow(self, index, xp, yp, r) ==
    IF self.panicked THEN self
    ELSE IF r + index * HEIGHT >= Len(BITMAP) THEN [self EXCEPT !.panicked = TRUE]
    ELSE LET b == BITMAP[r + index * HEIGHT + 1]
         IN Loop(LAMBDA st, k : set_pixel(st, xp + k, yp + r, BitAnd(b, Mask(k)) # 0),
                 Panicked, 0, 7, self)

print_char(self, x, y, c) ==
    IF self.panicked THEN self
    ELSE
    LET index == GlyphIndex(c)
        xp == x * (WIDTH + self.char_spacing)
        yp == y * HEIGHT
        entered == [self EXCEPT !.placed =
                       Append(@, [col |-> x, row |-> y, c |-> c, index |-> index])]
    IN Loop(LAMBDA st, r : PrintCharRow(st, index, xp, yp, r),
            Panicked, 0, HEIGHT - 1, entered)

\* One iteration of print's loop on the i-th character of s (i from 1):
\* cur is the handle, the cursor (xc, yc) and whether the loop has ended,
\* by break or by a panic.
PrintStep(cur, s, i) ==
    IF cur.stop THEN cur
    ELSE
    LET drawn == print_char(cur.self, cur.xc, cur.yc, s[i])
        xn == cur.xc + 1
    IN IF drawn.panicked
       THEN [self |-> drawn, xc |-> cur.xc, yc |-> cur.yc, stop |-> TRUE]
       ELSE IF xn * (WIDTH + drawn.char_spacing) >= LCDWIDTH
       THEN [self |-> drawn, xc |-> 0, yc |-> cur.yc + 1,
             stop |-> (cur.yc + 1) * HEIGHT >= LCDHEIGHT]
       ELSE [self |-> drawn, xc |-> xn, yc |-> cur.yc, stop |-> FALSE]

print(self, x, y, s) ==
    Loop(LAMBDA cur, i : PrintStep(cur, s, i), LAMBDA cur : cur.stop, 1, Len(s),
         [self |-> self, xc |-> x, yc |-> y, stop |-> FALSE]).self

\* ------------------------------------------------------ the controller

\* The instruction set the driver speaks (the PCD8544_* constants).
PCD8544_EXTENDEDINSTRUCTION == 1
PCD8544_DISPLAYBLANK == 0
PCD8544_DISPLAYNORMAL == 4
PCD8544_DISPLAYALLON == 1
PCD8544_DISPLAYINVERTED == 5
PCD8544_FUNCTIONSET == 32
PCD8544_DISPLAYCONTROL == 8
PCD8544_SETYADDR == 64
PCD8544_SETXADDR == 128
PCD8544_SETTEMP == 4
PCD8544_SETBIAS == 16
PCD8544_SETVOP == 128
DEFAULT_CONTRAST == 40
DEFAULT_BIAS == 4

\* The controller after a reset pulse: basic instruction mode, display
\* horizontal addressing, powered down, display blank, address counters
\* and settings cleared.
CtrlReset ==
    [h |-> 0, v |-> 0, pd |-> 1, display |-> PCD8544_DISPLAYBLANK,
     x |-> 0, y |-> 0, vop |-> 0, bias |-> 0, temp |-> 0]

\* One byte received with the mode-select line at "command".  Function set
\* is accepted in both instruction modes and sets power-down (bit 2), the
\* addressing (bit 1) and the instruction mode (bit 0); display control and the address commands belong to the basic mode,
\* temperature, bias and operating voltage to the extended mode; what the
\* current mode does not define is ignored.
Command(c, b) ==
    IF BitAnd(b, 248) = PCD8544_FUNCTIONSET
    THEN [c EXCEPT !.h = BitAnd(b, PCD8544_EXTENDEDINSTRUCTION),
                   !.v = Bit(b, 1), !.pd = Bit(b, 2)]
    ELSE IF c.h = 0
    THEN IF BitAnd(b, PCD8544_SETXADDR) # 0
         THEN [c EXCEPT !.x = BitAnd(b, 127)]
         ELSE IF BitAnd(b, 248) = PCD8544_SETYADDR
         THEN [c EXCEPT !.y = BitAnd(b, 7)]
         ELSE IF BitAnd(b, 250) = PCD8544_DISPLAYCONTROL
         THEN [c EXCEPT !.display = BitAnd(b, 5)]
         ELSE c
    ELSE IF BitAnd(b, PCD8544_SETVOP) # 0
         THEN [c EXCEPT !.vop = BitAnd(b, 127)]
         ELSE IF BitAnd(b, 248) = PCD8544_SETBIAS
         THEN [c EXCEPT !.bias = BitAnd(b, 7)]
         ELSE IF BitAnd(b, 252) = PCD8544_SETTEMP
         THEN [c EXCEPT !.temp = BitAnd(b, 3)]
         ELSE c

\* n bytes received with the mode-select line at "data": each is stored at
\* the address counter, which then advances along the row (horizontal
\* addressing) or down the column (vertical addressing) and wraps at the
\* end of the memory.
Data(c, n) ==
    LET bands == LCDHEIGHT \div 8
        hat == (c.y * LCDWIDTH + c.x + n) % BUFFER_LEN
        vat == (c.x * bands + c.y + n) % BUFFER_LEN
    IN IF c.v = 0
       THEN [c EXCEPT !.x = hat % LCDWIDTH, !.y = hat \div LCDWIDTH]
       ELSE [c EXCEPT !.x = vat \div bands, !.y = vat % bands]

\* The bytes the bus accepted, as the controller takes them; it takes
\* nothing while it is held in reset.
Receive(c, rstLevel, dcLevel, bytes) ==
    IF rstLevel = 0 THEN c
    ELSE IF dcLevel = 1 THEN Data(c, Len(bytes))
    ELSE Loop(LAMBDA cc, i : Command(cc, bytes[i]), LAMBDA cc : FALSE, 1, Len(bytes), c)

\* ------------------------------------------------------ protocol layer

\* The handle's lines and bus as a call runs: the line levels, the
\* controller, the operations performed so far (wire), the number of line
\* and bus operations attempted (step), those the environment makes fail
\* (fails), how many bytes the bus accepts of a write of several (accept),
\* and the error the call is returning (err, "none" while it runs).
Io(fails, accept) ==
    [dc |-> dc, rst |-> rst, ctrl |-> ctrl, wire |-> <<>>, step |-> 0,
     fails |-> fails, accept |-> accept, err |-> "none"]

LineEvent(line, level) == [kind |-> line, level |-> level, bytes |-> <<>>, accepted |-> 0]
BusEvent(bytes, n) == [kind |-> "spi", level |-> 0, bytes |-> bytes, accepted |-> n]
SleepEvent(ms) == [kind |-> "sleep", level |-> ms, bytes |-> <<>>, accepted |-> 0]

\* self.dc.set_value(level)?
SetDc(io, level) ==
    IF io.err # "none" THEN io
    ELSE IF (io.step + 1) \in io.fails
    THEN [io EXCEPT !.step = @ + 1, !.err = "PinError"]
    ELSE [io EXCEPT !.step = @ + 1, !.dc = level,
                    !.wire = Append(@, LineEvent("dc", level))]

\* self.rst.set_value(level)?; the low level resets the controller.
SetRst(io, level) ==
    IF io.err # "none" THEN io
    ELSE IF (io.step + 1) \in io.fails
    THEN [io EXCEPT !.step = @ + 1, !.err = "PinError"]
    ELSE [io EXCEPT !.step = @ + 1, !.rst = level,
                    !.ctrl = IF level = 0 THEN CtrlReset ELSE @,
                    !.wire = Append(@, LineEvent("rst", level))]

\* sleep(Duration::from_millis(ms))
Sleep(io, ms) ==
    IF io.err # "none" THEN io
    ELSE [io EXCEPT !.wire = Append(@, SleepEvent(ms))]

\* self.spi.write(bytes) with the error of an earlier line write ignored
\* (no ? on set_value).
SpiWrite_regardless(io, bytes) ==
    IF (io.step + 1) \in io.fails
    THEN [io EXCEPT !.step = @ + 1, !.err = "SpiDevError"]
    ELSE LET n == IF io.accept < Len(bytes) THEN io.accept ELSE Len(bytes)
         IN [io EXCEPT !.step = @ + 1,
                       !.ctrl = Receive(@, io.rst, io.dc, SubSeq(bytes, 1, n)),
                       !.wire = Append(@, BusEvent(bytes, n))]

\* self.spi.write(bytes)?: Ok(n) with the first n bytes accepted, or Err.
\* A write of one byte that returns Ok has accepted it; of a longer one the
\* bus accepts at least one byte and at most all.
SpiWrite(io, bytes) ==
    IF io.err # "none" THEN io
    ELSE IF (io.step + 1) \in io.fails
    THEN [io EXCEPT !.step = @ + 1, !.err = "SpiDevError"]
    ELSE LET n == IF io.accept < Len(bytes) THEN io.accept ELSE Len(bytes)
         IN [io EXCEPT !.step = @ + 1,
                       !.ctrl = Receive(@, io.rst, io.dc, SubSeq(bytes, 1, n)),
                       !.wire = Append(@, BusEvent(bytes, n))]

reset(io) == SetRst(Sleep(SetRst(io, 0), 100), 1)

send_command(io, c) == SpiWrite(SetDc(io, 0), <<c>>)

\* send_extended_command with its last two commands exchanged.
send_extended_command_swapped(io, c) ==
    LET extended == send_command(io, BitOr(PCD8544_FUNCTIONSET, PCD8544_EXTENDEDINSTRUCTION))
        sent == send_command(extended, c)
        normal == send_command(sent, BitOr(PCD8544_DISPLAYCONTROL, PCD8544_DISPLAYNORMAL))
    IN send_command(normal, PCD8544_FUNCTIONSET)

\* send_extended_command without the return to the basic instruction set.
send_extended_command_stays(io, c) ==
    LET extended == send_command(io, BitOr(PCD8544_FUNCTIONSET, PCD8544_EXTENDEDINSTRUCTION))
        sent == send_command(extended, c)
    IN send_command(sent, BitOr(PCD8544_DISPLAYCONTROL, PCD8544_DISPLAYNORMAL))

send_extended_command(io, c) ==
    LET extended == send_command(io, BitOr(PCD8544_FUNCTIONSET, PCD8544_EXTENDEDINSTRUCTION))
        sent == send_command(extended, c)
        basic == send_command(sent, PCD8544_FUNCTIONSET)
    IN send_command(basic, BitOr(PCD8544_DISPLAYCONTROL, PCD8544_DISPLAYNORMAL))

send_data_byte(io, c) == SpiWrite(SetDc(io, 1), <<c>>)

\* set_contrast without the clamp.
set_contrast_unclamped(io, contrast) ==
    send_extended_command(io, BitOr(PCD8544_SETVOP, contrast))

set_contrast(io, contrast) ==
    LET c == IF contrast > 127 THEN 127 ELSE contrast
    IN send_extended_command(io, BitOr(PCD8544_SETVOP, c))

set_bias(io, bias) == send_extended_command(io, BitOr(PCD8544_SETBIAS, bias))

\* &self.buffer as the bus sees it: its bytes from index 0 on.
BufferBytes(buf) == [i \in 1 .. BUFFER_LEN |-> buf[i - 1]]

\* update with the buffer written while the mode-select line is still at
\* "command".
update_as_commands(io, buf) ==
    LET y0 == send_command(io, PCD8544_SETYADDR)
        x0 == send_command(y0, PCD8544_SETXADDR)
    IN SpiWrite(x0, BufferBytes(buf))

update(io, buf) ==
    LET y0 == send_command(io, PCD8544_SETYADDR)
        x0 == send_command(y0, PCD8544_SETXADDR)
    IN SpiWrite(SetDc(x0, 1), BufferBytes(buf))

\* ---------------------------------------------------- line initializer

\* What the sysfs entry of a line does to one call of new_pin: whether the
\* export fails, and which calls of set_direction (counted from 1) fail.
PinEnv(export_fails, dir_fails) ==
    [export_fails |-> export_fails, dir_fails |-> dir_fails]

\* pin.export() on line n and whether it succeeded.
ExportEvent(n, ok) ==
    [kind |-> "export", level |-> 0, bytes |-> <<n>>, accepted |-> IF ok THEN 1 ELSE 0]

\* The k-th call of pin.set_direction(dir) on line n and whether it
\* succeeded.
DirectionEvent(n, k, ok) ==
    [kind |-> "set_direction", level |-> k, bytes |-> <<n>>,
     accepted |-> IF ok THEN 1 ELSE 0]

\* Ok(pin), and the Err built from the error of the export or of the k-th
\* set_direction.
OkPin == [ok |-> TRUE, origin |-> "none", attempt |-> 0]
ErrPin(origin, k) == [ok |-> FALSE, origin |-> origin, attempt |-> k]

\* The iteration of new_pin's loop with the first Err kept instead of the
\* last.
NewPinAttempt_first(n, env, timeout, st, k) ==
    LET slept == IF k > 0 THEN Append(st.trace, SleepEvent(timeout)) ELSE st.trace
        ok == (k + 1) \notin env.dir_fails
    IN [res      |-> IF ok THEN OkPin
                     ELSE IF st.res.ok THEN ErrPin("set_direction", k + 1) ELSE st.res,
        trace    |-> Append(slept, DirectionEvent(n, k + 1, ok)),
        returned |-> ok]

\* The iteration of new_pin's loop with the sleep after a failed attempt
\* instead of before a repeated one.
NewPinAttempt_sleep_after(n, env, timeout, st, k) ==
    LET ok == (k + 1) \notin env.dir_fails
        tried == Append(st.trace, DirectionEvent(n, k + 1, ok))
    IN [res      |-> IF ok THEN OkPin ELSE ErrPin("set_direction", k + 1),
        trace    |-> IF ok THEN tried ELSE Append(tried, SleepEvent(timeout)),
        returned |-> ok]

\* One iteration of new_pin's loop, k from 0: the sleep before every
\* attempt but the first, then set_direction; Ok returns at once, Err is
\* kept in res.
NewPinAttempt(n, env, timeout, st, k) ==
    LET slept == IF k > 0 THEN Append(st.trace, SleepEvent(timeout)) ELSE st.trace
        ok == (k + 1) \notin env.dir_fails
    IN [res      |-> IF ok THEN OkPin ELSE ErrPin("set_direction", k + 1),
        trace    |-> Append(slept, DirectionEvent(n, k + 1, ok)),
        returned |-> ok]

Returns(st) == st.returned

\* new_pin: res starts as Ok(pin); pin.export()?; for k in 0..retries; res.
new_pin(n, env, timeout, retries) ==
    IF env.export_fails
    THEN [res |-> ErrPin("export", 0), trace |-> <<ExportEvent(n, FALSE)>>,
          returned |-> TRUE]
    ELSE Loop(LAMBDA st, k : NewPinAttempt(n, env, timeout, st, k), Returns,
              0, retries - 1,
              [res |-> OkPin, trace |-> <<ExportEvent(n, TRUE)>>, returned |-> FALSE])

\* ------------------------------------------------------- construction

\* Spidev::open(spi) and spidev.configure(&options), and whether each
\* succeeded.
OpenEvent(ok) ==
    [kind |-> "open", level |-> 0, bytes |-> <<>>, accepted |-> IF ok THEN 1 ELSE 0]

ConfigureEvent(ok) ==
    [kind |-> "configure", level |-> 0, bytes |-> <<>>, accepted |-> IF ok THEN 1 ELSE 0]

\* What the system does to one call of PCD8544::new: whether opening or
\* configuring the bus fails, the sysfs behaviour of either line, and which
\* of the line and bus writes that follow (counted from 1) fail.
NewEnv(open_fails, configure_fails, dcenv, rstenv, fails) ==
    [open_fails |-> open_fails, configure_fails |-> configure_fails,
     dc |-> dcenv, rst |-> rstenv, fails |-> fails]

Quiet == NewEnv(FALSE, FALSE, PinEnv(FALSE, {}), PinEnv(FALSE, {}), {})

\* A step of PCD8544::new before the handle exists: skipped once an earlier
\* step has returned its error through ?.
Step(sofar, events, err) ==
    IF sofar.err # "none" THEN sofar
    ELSE [err |-> err, wire |-> sofar.wire \o events]

PinError(got) == IF got.res.ok THEN "none" ELSE "PinError"

\* PCD8544::new with set_bias called before set_contrast.
new_bias_first(dcn, rstn, o, ctrl0, env) ==
    LET opened == Step([err |-> "none", wire |-> <<>>], <<OpenEvent(~env.open_fails)>>,
                       IF env.open_fails THEN "SpiDevError" ELSE "none")
        configured == Step(opened, <<ConfigureEvent(~env.configure_fails)>>,
                           IF env.configure_fails THEN "SpiDevError" ELSE "none")
        dcpin == new_pin(dcn, env.dc, 100, 3)
        withdc == Step(configured, dcpin.trace, PinError(dcpin))
        rstpin == new_pin(rstn, env.rst, 100, 3)
        withrst == Step(withdc, rstpin.trace, PinError(rstpin))
        io0 == [dc |-> 0, rst |-> 0, ctrl |-> ctrl0, wire |-> withrst.wire, step |-> 0,
                fails |-> env.fails, accept |-> BUFFER_LEN, err |-> withrst.err]
    IN [io |-> set_contrast(set_bias(reset(io0), DEFAULT_BIAS), DEFAULT_CONTRAST),
        buffer |-> ZeroBuffer, orient |-> o, char_spacing |-> 0, inverse |-> FALSE]

\* PCD8544::new(dc, rst, spi, orient), the controller in whatever state
\* power-up left it: the bus opened and configured, the two lines acquired
\* (as outputs, low), the handle's fields, then reset,
\* set_contrast(DEFAULT_CONTRAST), set_bias(DEFAULT_BIAS).  The result is
\* the handle's fields and its lines and bus; io.err tells whether it is
\* returned (Ok) or dropped (Err).
new(dcn, rstn, o, ctrl0, env) ==
    LET opened == Step([err |-> "none", wire |-> <<>>], <<OpenEvent(~env.open_fails)>>,
                       IF env.open_fails THEN "SpiDevError" ELSE "none")
        configured == Step(opened, <<ConfigureEvent(~env.configure_fails)>>,
                           IF env.configure_fails THEN "SpiDevError" ELSE "none")
        dcpin == new_pin(dcn, env.dc, 100, 3)
        withdc == Step(configured, dcpin.trace, PinError(dcpin))
        rstpin == new_pin(rstn, env.rst, 100, 3)
        withrst == Step(withdc, rstpin.trace, PinError(rstpin))
        io0 == [dc |-> 0, rst |-> 0, ctrl |-> ctrl0, wire |-> withrst.wire, step |-> 0,
                fails |-> env.fails, accept |-> BUFFER_LEN, err |-> withrst.err]
    IN [io |-> set_bias(set_contrast(reset(io0), DEFAULT_CONTRAST), DEFAULT_BIAS),
        buffer |-> ZeroBuffer, orient |-> o, char_spacing |-> 0, inverse |-> FALSE]

\* The line numbers the application gives to PCD8544::new.
DcLine == 23
RstLine == 24

\* ------------------------------------------------------------ actions

\* The controller as power-up may leave it, before the reset pulse.
PowerUp ==
    { CtrlReset,
      [h |-> 1, v |-> 1, pd |-> 0, display |-> PCD8544_DISPLAYINVERTED,
       x |-> 83, y |-> 5, vop |-> 127, bias |-> 7, temp |-> 3] }

Called(op, x, y, a, ret, fails, accept) ==
    [op |-> op, x |-> x, y |-> y, a |-> a, ret |-> ret, fails |-> fails, accept |-> accept]

\* The handle PCD8544::new returns when every step of it succeeds.
Init ==
    /\ overflow_checks \in BOOLEAN
    /\ \E o \in Orientations, c0 \in PowerUp :
          LET h == new(DcLine, RstLine, o, c0, Quiet)
          IN /\ h.io.err = "none"
             /\ orient = h.orient
             /\ buffer = h.buffer
             /\ char_spacing = h.char_spacing
             /\ inverse = h.inverse
             /\ dc = h.io.dc
             /\ rst = h.io.rst
             /\ ctrl = h.io.ctrl
             /\ wire = h.io.wire
    /\ panicked = FALSE
    /\ call = Called("new", 0, 0, 0, "ok", {}, 0)
    /\ pre = Fields
    /\ touched = NoWrites
    /\ placed = <<>>
    /\ hist = <<>>

\* A call on the handle needs a handle: PCD8544::new has returned Ok.
CanCall ==
    /\ ~panicked
    /\ Len(hist) < MaxOps
    /\ call.op # "none"
    /\ call.op = "new" => call.ret = "ok"

\* Before PCD8544::new: no handle, the lines not driven, the controller as
\* power-up left it.  The handle's variables hold what the struct literal
\* will hold; orient is the orientation the application will ask for.
InitNew ==
    /\ overflow_checks = FALSE
    /\ orient \in Orientations
    /\ buffer = ZeroBuffer
    /\ char_spacing = 0
    /\ inverse = FALSE
    /\ dc = 0
    /\ rst = 0
    /\ ctrl \in PowerUp
    /\ wire = <<>>
    /\ panicked = FALSE
    /\ call = Called("none", 0, 0, 0, "ok", {}, 0)
    /\ pre = Fields
    /\ touched = NoWrites
    /\ placed = <<>>
    /\ hist = <<>>

\* PCD8544::new in the environments given.  Err drops what was built: the
\* lines and the controller stay as the steps performed left them.
NewCall(Opens, PinEnvs, Fs) ==
    /\ call.op = "none"
    /\ \E opens \in Opens, de \in PinEnvs, re \in PinEnvs, f \in Fs :
          LET env == NewEnv(opens[1], opens[2], de, re, f)
              h == new(DcLine, RstLine, orient, ctrl, env)
          IN /\ call' = Called("new", DcLine, RstLine, env,
                               IF h.io.err = "none" THEN "ok" ELSE h.io.err, f, 0)
             /\ orient' = h.orient
             /\ buffer' = h.buffer
             /\ char_spacing' = h.char_spacing
             /\ inverse' = h.inverse
             /\ dc' = h.io.dc
             /\ rst' = h.io.rst
             /\ ctrl' = h.io.ctrl
             /\ wire' = h.io.wire
    /\ pre' = Fields
    /\ UNCHANGED <<overflow_checks, panicked, touched, placed, hist>>

\* What a call on the framebuffer leaves behind; it touches neither line
\* nor bus.
Drawn(op, x, y, a, self) ==
    /\ buffer' = self.buffer
    /\ panicked' = self.panicked
    /\ touched' = self.touched
    /\ placed' = self.placed
    /\ pre' = Fields
    /\ call' = Called(op, x, y, a, IF self.panicked THEN "panic" ELSE "ok", {}, 0)
    /\ hist' = Append(hist, call')
    /\ wire' = <<>>
    /\ UNCHANGED <<overflow_checks, dc, rst, ctrl>>

\* What a call of the protocol layer leaves behind; Err leaves the handle
\* usable.
Sent(op, a, io) ==
    /\ dc' = io.dc
    /\ rst' = io.rst
    /\ ctrl' = io.ctrl
    /\ wire' = io.wire
    /\ call' = Called(op, 0, 0, a, IF io.err = "none" THEN "ok" ELSE io.err,
                      io.fails, io.accept)
    /\ hist' = Append(hist, call')
    /\ pre' = Fields
    /\ touched' = NoWrites
    /\ placed' = <<>>
    /\ UNCHANGED <<overflow_checks, buffer, orient, char_spacing, inverse, panicked>>

SetPixelCall(Xs, Ys) ==
    /\ CanCall
    /\ \E x \in Xs, y \in Ys, value \in BOOLEAN :
          Drawn("set_pixel", x, y, value, set_pixel(Self, x, y, value))
    /\ UNCHANGED <<orient, char_spacing, inverse>>

ClearCall ==
    /\ CanCall
    /\ Drawn("clear", 0, 0, 0, clear(Self))
    /\ UNCHANGED <<orient, char_spacing, inverse>>

PrintCharCall(Cells, Cs) ==
    /\ CanCall
    /\ \E cell \in Cells, c \in Cs :
          Drawn("print_char", cell[1], cell[2], c, print_char(Self, cell[1], cell[2], c))
    /\ UNCHANGED <<orient, char_spacing, inverse>>

PrintCall(Ss) ==
    /\ CanCall
    /\ \E s \in Ss : Drawn("print", 0, 0, s, print(Self, 0, 0, s))
    /\ UNCHANGED <<orient, char_spacing, inverse>>

\* The fields orient, char_spacing and inverse are public: the application
\* assigns them between calls.
SetOrient ==
    /\ CanCall
    /\ \E o \in Orientations \ {orient} : orient' = o
    /\ Drawn("orient", 0, 0, 0, Self)
    /\ UNCHANGED <<char_spacing, inverse>>

SetInverse ==
    /\ CanCall
    /\ inverse' = ~inverse
    /\ Drawn("inverse", 0, 0, 0, Self)
    /\ UNCHANGED <<orient, char_spacing>>

SetSpacing(Sp) ==
    /\ CanCall
    /\ \E s \in Sp \ {char_spacing} : char_spacing' = s
    /\ Drawn("char_spacing", 0, 0, 0, Self)
    /\ UNCHANGED <<orient, inverse>>

\* The environment of a protocol call of k line and bus operations: none
\* fails, or the j-th does.
Failures(k) == {{}} \cup { {j} : j \in 1 .. k }

ResetCall ==
    /\ CanCall
    /\ \E f \in Failures(2) : Sent("reset", 0, reset(Io(f, BUFFER_LEN)))

SendCommandCall(Bs) ==
    /\ CanCall
    /\ \E c \in Bs, f \in Failures(2) :
          Sent("send_command", c, send_command(Io(f, BUFFER_LEN), c))

SendExtendedCommandCall(Bs) ==
    /\ CanCall
    /\ \E c \in Bs, f \in Failures(8) :
          Sent("send_extended_command", c, send_extended_command(Io(f, BUFFER_LEN), c))

SendDataByteCall(Bs) ==
    /\ CanCall
    /\ \E c \in Bs, f \in Failures(2) :
          Sent("send_data_byte", c, send_data_byte(Io(f, BUFFER_LEN), c))

SetContrastCall(Vs) ==
    /\ CanCall
    /\ \E v \in Vs, f \in Failures(8) :
          Sent("set_contrast", v, set_contrast(Io(f, BUFFER_LEN), v))

SetBiasCall(Vs) ==
    /\ CanCall
    /\ \E v \in Vs, f \in Failures(8) :
          Sent("set_bias", v, set_bias(Io(f, BUFFER_LEN), v))

\* update, with the byte counts the bus may report for the buffer.
UpdateCall ==
    /\ CanCall
    /\ \E f \in Failures(6), n \in {1, BUFFER_LEN - 1, BUFFER_LEN} :
          /\ f # {} => n = BUFFER_LEN
          /\ Sent("update", 0, update(Io(f, n), buffer))

\* new_pin on a line of its own (line 0), for the retry counts and the
\* sysfs behaviours given.
NewPinCall(Ns, Ts) ==
    /\ Len(hist) < MaxOps
    /\ \E n \in Ns, timeout \in Ts, ef \in BOOLEAN : \E df \in SUBSET (1 .. n) :
          LET env == PinEnv(ef, df)
              got == new_pin(0, env, timeout, n)
          IN /\ call' = Called("new_pin", n, timeout, env,
                               IF got.res.ok THEN "ok" ELSE "PinError",
                               {got.res.origin}, got.res.attempt)
             /\ wire' = got.trace
    /\ hist' = Append(hist, call')
    /\ pre' = Fields
    /\ touched' = NoWrites
    /\ placed' = <<>>
    /\ UNCHANGED <<overflow_checks, buffer, orient, char_spacing, inverse, panicked,
                   dc, rst, ctrl>>

\* ----------------------------------------------------- specifications

\* Pixel coordinates: the corners of the display in either orientation and
\* the first coordinates past each edge; among the rows also a neighbour,
\* which shares a buffer byte with a corner.
PixelXs == {0, 47, 48, 84}
PixelYs == {0, 1, 47, 48, 84}

\* Characters given to the renderer: one of the table, one that is not in
\* it, and one above U+FFFF whose low 16 bits are those of a table entry.
Chars == {65, 20013, 65601}

\* Character cells: the origin and its right neighbour, and the last cell
\* of a row that is 48 and 84 pixels wide.
Cells == {<<0, 0>>, <<1, 0>>, <<7, 3>>, <<13, 3>>}

Spacings == {0, 1, 2}

\* The string of length n whose i-th character is a if i is odd, b if even.
Alt(a, b, n) == [i \in 1 .. n |-> IF i % 2 = 1 THEN a ELSE b]

\* Longest string printed: the 56 cells of the display and two more.
MaxStrLen == 58

Strings == { Alt(65, 66, MaxStrLen), <<66, 20013, 65>>, <<65601, 66>> }

CmdBytes == {13, 33, 211}
ExtBytes == {5}
DataBytes == {165}
ContrastValues == {0, 127, 200}
BiasValues == {3}

\* The framebuffer under set_pixel and clear.
NextPixel ==
    \/ SetPixelCall(PixelXs, PixelYs)
    \/ ClearCall
    \/ SetOrient
    \/ SetInverse

SpecPixel == Init /\ [][NextPixel]_vars

\* The text renderer, one character at a time.
NextChar ==
    \/ PrintCharCall(Cells, Chars)
    \/ ClearCall
    \/ SetOrient
    \/ SetInverse
    \/ SetSpacing(Spacings)

SpecChar == Init /\ [][NextChar]_vars

\* The text renderer on strings.
NextPrint ==
    \/ PrintCall(Strings)
    \/ SetSpacing(Spacings)
    \/ SetInverse

SpecPrint == Init /\ [][NextPrint]_vars

\* The protocol layer, on a handle whose framebuffer holds a few pixels.
NextProto ==
    \/ ResetCall
    \/ SendCommandCall(CmdBytes)
    \/ SendExtendedCommandCall(ExtBytes)
    \/ SendDataByteCall(DataBytes)
    \/ SetContrastCall(ContrastValues)
    \/ SetBiasCall(BiasValues)
    \/ UpdateCall
    \/ SetPixelCall({83}, {9})

InitProto == Init /\ ~overflow_checks /\ orient = [kind |-> "Landscape", flip |-> FALSE]

SpecProto == InitProto /\ [][NextProto]_vars

\* The line initializer: new_pin with 0 .. MaxRetries attempts allowed.
Timeouts == {100}

NextPin == NewPinCall(0 .. MaxRetries, Timeouts)

InitPin == Init /\ ~overflow_checks /\ orient = [kind |-> "Landscape", flip |-> FALSE]

SpecPin == InitPin /\ [][NextPin]_vars

\* Construction: the bus failing to open or to configure, each line
\* acquired at once, after two failures, or not at all, and any one of the
\* 18 line and bus writes of reset, set_contrast and set_bias failing.
Opens == {<<FALSE, FALSE>>, <<TRUE, FALSE>>, <<FALSE, TRUE>>}

PinEnvs ==
    {PinEnv(FALSE, {}), PinEnv(TRUE, {}), PinEnv(FALSE, {1, 2}), PinEnv(FALSE, {1, 2, 3})}

NextNew == NewCall(Opens, PinEnvs, Failures(18))

SpecNew == InitNew /\ [][NextNew]_vars

\* Every operation of the handle.
Next == NextPixel \/ NextChar \/ NextPrint \/ NextProto \/ NextPin \/ NextNew

Spec == Init /\ [][Next]_vars

\* --------------------------------------------------------- properties

\* The orientation table of set_pixel's contract: the physical point of the
\* logical point (x, y), as integers (negative when a coordinate exceeds
\* the side it is subtracted from).
TablePoint(o, x, y) ==
    IF o.kind = "Landscape"
    THEN IF o.flip THEN <<y, LCDHEIGHT - 1 - x>> ELSE <<x, y>>
    ELSE IF o.flip THEN <<LCDWIDTH - 1 - x, LCDHEIGHT - 1 - y>>
         ELSE <<LCDWIDTH - 1 - y, x>>

OnScreen(o, x, y) ==
    LET p == TablePoint(o, x, y)
    IN p[1] >= 0 /\ p[1] < LCDWIDTH /\ p[2] >= 0 /\ p[2] < LCDHEIGHT

\* The buffer byte and the bit of the logical point (x, y).
ByteOf(o, x, y) ==
    LET p == TablePoint(o, x, y) IN p[1] + (p[2] \div 8) * LCDWIDTH

BitOf(o, x, y) == TablePoint(o, x, y)[2] % 8

\* The byte b with its bit n given the value v (0 or 1).
WithBit(b, n, v) == b + (v - Bit(b, n)) * (2 ^ n)

\* C1: for every orientation, inverse flag, value v and logical (x, y) whose
\* point of the orientation table lies on the 84 x 48 display, after
\* set_pixel(x, y, v) bit (py mod 8) of buffer byte px + (py div 8) * 84 is
\* (v XOR inverse) and every other bit of the buffer is as it was before.
C1_SetPixelWritesOneBit ==
    (call.op = "set_pixel" /\ OnScreen(orient, call.x, call.y)) =>
        LET i == ByteOf(orient, call.x, call.y)
            n == BitOf(orient, call.x, call.y)
            v == IF call.a # inverse THEN 1 ELSE 0
        IN /\ call.ret = "ok"
           /\ Bit(buffer[i], n) = v
           /\ buffer = [pre.buffer EXCEPT ![i] = WithBit(@, n, v)]

\* C1's case: in the flipped portrait orientation, a pixel is set in a
\* byte that already holds another pixel.
C1_Witness ==
    /\ call.op = "set_pixel" /\ call.ret = "ok"
    /\ orient = [kind |-> "Portrait", flip |-> TRUE]
    /\ OnScreen(orient, call.x, call.y)
    /\ call.a # inverse
    /\ LET i == ByteOf(orient, call.x, call.y)
           n == BitOf(orient, call.x, call.y)
       IN /\ pre.buffer[i] # 0
          /\ Bit(pre.buffer[i], n) = 0
          /\ Bit(buffer[i], n) = 1

\* C2: for every orientation and every logical (x, y) whose point of the
\* orientation table falls off the display (x > 47 and y > 83 included),
\* set_pixel(x, y, v) returns normally and leaves the 504 bytes unchanged.
C2_OffScreenIsNoOp ==
    (call.op = "set_pixel" /\ ~OnScreen(orient, call.x, call.y)) =>
        /\ call.ret = "ok"
        /\ buffer = pre.buffer

\* The mode-select line driven to "command" and one byte written, for each
\* byte of bs in turn.
CommandWrites(bs) ==
    [j \in 1 .. 2 * Len(bs) |->
        IF j % 2 = 1 THEN LineEvent("dc", 0) ELSE BusEvent(<<bs[j \div 2]>>, 1)]

Returned(c) == c.ret = "ok"

\* C3: a successful send_extended_command(c) writes exactly the four bytes
\* 0x21, c, 0x20, 0x0C, each after driving the mode-select line to
\* "command"; and after any successful send_extended_command, set_contrast
\* or set_bias the display mode of the controller (here: one that the reset
\* line does not hold in reset) is "normal", whatever send_command had set.
C3_ExtendedCommandSequence ==
    /\ (call.op = "send_extended_command" /\ Returned(call)) =>
           wire = CommandWrites(<<33, call.a, 32, 12>>)
    /\ (call.op \in {"send_extended_command", "set_contrast", "set_bias"}
          /\ Returned(call) /\ rst = 1) =>
           ctrl.display = 4

\* C3's case: send_command(0x0D) set the inverted display mode, and a
\* successful send_extended_command follows it.
C3_Witness ==
    /\ Len(hist) = 2
    /\ hist[1].op = "send_command" /\ hist[1].a = 13 /\ Returned(hist[1])
    /\ call.op = "send_extended_command" /\ Returned(call)
    /\ rst = 1
    /\ Len(wire) = 8
    /\ ctrl.display = 4

\* C4 as stated: after any sequence of public operations that all returned
\* success, send_command with any byte among them, the controller is in
\* basic instruction mode.
C4_NeverLeftExtended ==
    (\A j \in 1 .. Len(hist) : Returned(hist[j])) => ctrl.h = 0

\* A function-set command with the extended-instruction bit set.
EntersExtended(c) == (c \div 8) = 4 /\ c % 2 = 1

\* C4, amended: after any sequence of public operations that all returned
\* success, none of them a send_command of a function-set byte with the
\* extended-instruction bit set, the controller is in basic instruction
\* mode.
C4_BasicUnlessSentRaw ==
    (\A j \in 1 .. Len(hist) :
        /\ Returned(hist[j])
        /\ ~(hist[j].op = "send_command" /\ EntersExtended(hist[j].a))) =>
        ctrl.h = 0

\* C4's case: a send_extended_command and an update, both successful, leave
\* the controller in basic mode.
C4_Witness ==
    /\ Len(hist) = 2
    /\ hist[1].op = "send_extended_command" /\ Returned(hist[1])
    /\ hist[2].op = "update" /\ Returned(hist[2])
    /\ ctrl.h = 0

\* C5: a successful update() writes command byte 0x40 and command byte
\* 0x80, each with the mode-select line at "command", drives the line to
\* "data", and hands the framebuffer bytes to the bus in index order 0..503
\* in one write; it writes no other byte and leaves the framebuffer,
\* orientation, spacing and inverse flag unchanged.
C5_UpdateSequence ==
    (call.op = "update" /\ Returned(call)) =>
        /\ Len(wire) = 6
        /\ SubSeq(wire, 1, 4) = CommandWrites(<<64, 128>>)
        /\ wire[5] = LineEvent("dc", 1)
        /\ wire[6].kind = "spi"
        /\ Len(wire[6].bytes) = 504
        /\ \A i \in 0 .. 503 : wire[6].bytes[i + 1] = pre.buffer[i]
        /\ Fields = pre

\* C5's case: a successful update of a framebuffer that holds a pixel.
C5_Witness ==
    /\ call.op = "update" /\ Returned(call)
    /\ buffer # ZeroBuffer
    /\ Len(wire) = 6
    /\ wire[6].bytes[168] = 2

Min(a, b) == IF a < b THEN a ELSE b

\* C6: set_contrast(v) produces the sequence of line and bus writes that
\* set_contrast(min(v, 127)) produces in the same environment, and the
\* extended command byte it sends is 0x80 OR min(v, 127): bit 7 set, the low
\* 7 bits min(v, 127).
C6_ContrastSaturates ==
    (call.op = "set_contrast") =>
        /\ wire = set_contrast(Io(call.fails, call.accept), Min(call.a, 127)).wire
        /\ Len(wire) >= 4 =>
              /\ wire[4].bytes = <<128 + Min(call.a, 127)>>
              /\ wire[4].bytes[1] \div 128 = 1
              /\ wire[4].bytes[1] % 128 = Min(call.a, 127)

\* C6's case: set_contrast(200) has sent the byte of set_contrast(127).
C6_Witness ==
    /\ call.op = "set_contrast" /\ call.a = 200 /\ Returned(call)
    /\ wire[4].bytes = <<255>>

\* The characters the running call has rendered completely: its print_char
\* invocations, less the one a panic cut short.
Rendered == IF panicked THEN Len(placed) - 1 ELSE Len(placed)

\* C7: with char_spacing = 0, print(0, 0, s) places the i-th character of s
\* (from 0, i < 56) at column i mod 14 of row i div 14: 14 characters to a
\* row, the 15th at column 0 of the next row, none of the first 56 skipped.
C7_FourteenPerRow ==
    (call.op = "print" /\ char_spacing = 0) =>
        \A i \in 0 .. (Min(Len(call.a), 56) - 1) :
            /\ i < Rendered
            /\ placed[i + 1].c = call.a[i + 1]
            /\ placed[i + 1].col = i % 14
            /\ placed[i + 1].row = i \div 14

\* C8: for every string, char_spacing and orientation, print(0, 0, s)
\* terminates without error; no character is placed on a row whose top edge
\* row * 12 is at or below the bottom of the display; and every buffer index
\* written during the call is in 0..503.
C8_PrintNeverFails ==
    (call.op = "print") =>
        /\ call.ret = "ok"
        /\ \A j \in 1 .. Len(placed) : placed[j].row * 12 < 48
        /\ touched.n > 0 => (touched.lo >= 0 /\ touched.hi <= 503)

\* C9: print_char never fails: for every character, those absent from the
\* encoding table included, print_char completes normally and the glyph
\* index it uses satisfies index * glyph_height + r < length of the bitmap
\* for every glyph row r.
C9_PrintCharNeverFails ==
    (call.op = "print_char") =>
        /\ \A r \in 0 .. (HEIGHT - 1) : placed[1].index * HEIGHT + r < Len(BITMAP)
        /\ call.ret = "ok"

\* The character c is in the encoding table; its index there (from 0).
InTable(c) == \E j \in 1 .. Len(ENCODING) : ENCODING[j] = c

TableIndex(c) == (CHOOSE j \in 1 .. Len(ENCODING) : ENCODING[j] = c) - 1

\* The 6 x 12 cell (col, row) lies on the display.
CellOnScreen(o, s, col, row) ==
    /\ OnScreen(o, col * (6 + s), row * 12)
    /\ OnScreen(o, col * (6 + s) + 5, row * 12 + 11)

\* The logical pixel (x, y) read back through the orientation table; a
\* point off the display reads as not set.
PixelSet(o, x, y) ==
    OnScreen(o, x, y) /\ Bit(buffer[ByteOf(o, x, y)], BitOf(o, x, y)) = 1

\* C10: in every orientation, with inverse false and a cleared buffer, after
\* print_char(col, row, c) of a character of the encoding table (index i)
\* whose cell lies on the display, for every glyph row r in 0..11 and bit
\* position k in 0..7 the pixel at logical (col*(6+spacing)+k, row*12+r) is
\* set exactly when bit (7-k) of bitmap[i*12 + r] is 1.
C10_GlyphRoundTrip ==
    (/\ call.op = "print_char"
     /\ ~pre.inverse
     /\ pre.buffer = ZeroBuffer
     /\ InTable(call.a)
     /\ CellOnScreen(orient, char_spacing, call.x, call.y)) =>
        \A r \in 0 .. 11, k \in 0 .. 7 :
            PixelSet(orient, call.x * (6 + char_spacing) + k, call.y * 12 + r)
                <=> Bit(BITMAP[TableIndex(call.a) * 12 + r + 1], 7 - k) = 1

\* The set_direction calls of the trace w.
Attempts(w) == { j \in 1 .. Len(w) : w[j].kind = "set_direction" }

Waits(w) == { j \in 1 .. Len(w) : w[j].kind = "sleep" }

\* The attempts among 1 .. n that the environment lets succeed.
Succeeding(env, n) == { k \in 1 .. n : k \notin env.dir_fails }

\* C11: for every max_attempts n >= 1 and every pattern of set_direction
\* failures (the export having succeeded), if the first successful attempt
\* is attempt k <= n, new_pin returns the line right after attempt k, no
\* later attempt made; if all n attempts fail it returns the error of
\* attempt n.
C11_FirstSuccessOrLastError ==
    (call.op = "new_pin" /\ call.x >= 1 /\ ~call.a.export_fails) =>
        LET n == call.x
            good == Succeeding(call.a, n)
        IN IF good # {}
           THEN LET k == CHOOSE k \in good : \A j \in good : k <= j
                IN /\ call.ret = "ok"
                   /\ Cardinality(Attempts(wire)) = k
                   /\ wire[Len(wire)] = DirectionEvent(0, k, TRUE)
           ELSE /\ call.ret = "PinError"
                /\ call.fails = {"set_direction"}
                /\ call.accept = n
                /\ Cardinality(Attempts(wire)) = n

\* C11's case: attempts 1 and 2 fail and attempt 3 succeeds.
C11_Witness ==
    /\ call.op = "new_pin" /\ call.x = 3
    /\ ~call.a.export_fails /\ call.a.dir_fails = {1, 2}
    /\ call.ret = "ok"
    /\ wire[Len(wire)] = DirectionEvent(0, 3, TRUE)

\* C12: after any sequence of drawing calls and changes of orientation,
\* spacing or inverse flag, clear() leaves all 504 buffer bytes zero (also
\* when inverse is true), changes neither orientation, spacing nor the
\* inverse flag, and performs no line or bus write.
C12_ClearZeroesBuffer ==
    (call.op = "clear") =>
        /\ call.ret = "ok"
        /\ \A i \in 0 .. 503 : buffer[i] = 0
        /\ orient = pre.orient
        /\ char_spacing = pre.char_spacing
        /\ inverse = pre.inverse
        /\ wire = <<>>

\* C12's case: clear() on a buffer that held a pixel.
C12_Witness ==
    /\ call.op = "clear"
    /\ \E i \in 0 .. 503 : pre.buffer[i] # 0
    /\ buffer = ZeroBuffer

\* The line and bus operations (and the settle delay) of a protocol call
\* that meets no failure: the events, and which of them are line or bus
\* operations.
Sequence(c) ==
    CASE c.op = "reset" ->
            <<LineEvent("rst", 0), SleepEvent(100), LineEvent("rst", 1)>>
      [] c.op = "send_command" -> CommandWrites(<<c.a>>)
      [] c.op = "send_data_byte" -> <<LineEvent("dc", 1), BusEvent(<<c.a>>, 1)>>
      [] c.op = "send_extended_command" -> CommandWrites(<<33, c.a, 32, 12>>)
      [] c.op = "set_contrast" -> CommandWrites(<<33, 128 + Min(c.a, 127), 32, 12>>)
      [] c.op = "set_bias" -> CommandWrites(<<33, BitOr(16, c.a), 32, 12>>)
      [] c.op = "update" ->
            CommandWrites(<<64, 128>>)
               \o <<LineEvent("dc", 1), BusEvent(BufferBytes(pre.buffer), c.accept)>>

\* The events of s up to, not including, its j-th line or bus operation.
RECURSIVE Before(_, _)
Before(s, j) ==
    IF s = <<>> THEN <<>>
    ELSE IF Head(s).kind = "sleep" THEN <<Head(s)>> \o Before(Tail(s), j)
    ELSE IF j = 1 THEN <<>>
    ELSE <<Head(s)>> \o Before(Tail(s), j - 1)

ProtocolOps ==
    {"reset", "send_command", "send_data_byte", "send_extended_command",
     "set_contrast", "set_bias", "update"}

\* C13: in reset, send_command, send_data_byte, send_extended_command,
\* set_contrast, set_bias and update, if the j-th line or bus operation of
\* the call fails, the call returns that error (a line error for a line
\* write, a bus error for a bus write), has performed the operations before
\* the j-th and none after, does not restore the controller mode (after a
\* failure between the "enter extended mode" byte and the "basic mode" byte
\* the controller, when out of reset, is in extended mode), and the
\* framebuffer is unchanged.
C13_AbortOnFirstFailure ==
    (call.op \in ProtocolOps /\ call.fails # {}) =>
        LET j == CHOOSE j \in call.fails : TRUE
            s == Sequence(call)
            failed == s[Len(Before(s, j)) + 1]
        IN /\ call.ret = (IF failed.kind = "spi" THEN "SpiDevError" ELSE "PinError")
           /\ wire = Before(s, j)
           /\ buffer = pre.buffer
           /\ (/\ call.op \in {"send_extended_command", "set_contrast", "set_bias"}
               /\ j \in 3 .. 6
               /\ rst = 1) => ctrl.h = 1

\* C13's case: the bus write of the extended command byte fails; the
\* controller stays in extended mode.
C13_Witness ==
    /\ call.op = "send_extended_command"
    /\ call.fails = {4}
    /\ call.ret = "SpiDevError"
    /\ Len(wire) = 3
    /\ ctrl.h = 1

\* A line cannot be acquired: its export fails or all three attempts do.
Unobtainable(e) == e.export_fails \/ (1 .. 3) \subseteq e.dir_fails

\* The step of construction that fails in the environment env, 0 if none:
\* 1 open, 2 configure, 3 mode-select line, 4 reset line, 5 reset pulse,
\* 6 set_contrast, 7 set_bias.
FailingStep(env) ==
    IF env.open_fails THEN 1
    ELSE IF env.configure_fails THEN 2
    ELSE IF Unobtainable(env.dc) THEN 3
    ELSE IF Unobtainable(env.rst) THEN 4
    ELSE IF env.fails \cap (1 .. 2) # {} THEN 5
    ELSE IF env.fails \cap (3 .. 10) # {} THEN 6
    ELSE IF env.fails \cap (11 .. 18) # {} THEN 7
    ELSE 0

\* The positions in w of the sysfs operations on line n, of the writes to
\* the line named, and of the bus writes.
OnLine(w, n) ==
    { j \in 1 .. Len(w) : w[j].kind \in {"export", "set_direction"} /\ w[j].bytes = <<n>> }

Driven(w, line) == { j \in 1 .. Len(w) : w[j].kind = line }

\* The bytes written to the bus in w, in order.
BusBytes(w) ==
    LET writes == SelectSeq(w, LAMBDA e : e.kind = "spi")
    IN [j \in 1 .. Len(writes) |-> writes[j].bytes[1]]

IsPrefix(a, b) == Len(a) <= Len(b) /\ a = SubSeq(b, 1, Len(a))

Last(S) == CHOOSE j \in S : \A i \in S : i <= j

ConstructionBytes == <<33, 168, 32, 12, 33, 20, 32, 12>>

\* C14: a successful construct has, in this order, acquired the mode-select
\* line, acquired the reset line, driven reset low then (after the 100 ms
\* delay) high, issued set_contrast(40) and set_bias(4) -- the bus has
\* received exactly 0x21,0xA8,0x20,0x0C,0x21,0x14,0x20,0x0C -- and returns
\* a handle with an all-zero framebuffer, spacing 0, inverse false and the
\* controller in basic mode with normal display; if a step fails, no handle
\* is returned and no later step is performed.
C14_ConstructionOrder ==
    (call.op = "new") =>
        LET f == FailingStep(call.a)
            dcs == OnLine(wire, DcLine)
            rsts == OnLine(wire, RstLine)
        IN /\ (call.ret = "ok") <=> (f = 0)
           /\ f = 0 =>
                 /\ SubSeq(wire, 1, 2) = <<OpenEvent(TRUE), ConfigureEvent(TRUE)>>
                 /\ dcs # {} /\ rsts # {}
                 /\ \A i \in dcs, j \in rsts : i < j
                 /\ wire[Last(dcs)] = DirectionEvent(DcLine, wire[Last(dcs)].level, TRUE)
                 /\ wire[Last(rsts)] = DirectionEvent(RstLine, wire[Last(rsts)].level, TRUE)
                 /\ SubSeq(wire, Last(rsts) + 1, Len(wire)) =
                       <<LineEvent("rst", 0), SleepEvent(100), LineEvent("rst", 1)>>
                          \o CommandWrites(ConstructionBytes)
                 /\ BusBytes(wire) = ConstructionBytes
                 /\ \A i \in 0 .. 503 : buffer[i] = 0
                 /\ char_spacing = 0
                 /\ inverse = FALSE
                 /\ ctrl.h = 0
                 /\ ctrl.display = 4
           /\ f = 1 => wire = <<OpenEvent(FALSE)>>
           /\ f = 2 => wire = <<OpenEvent(TRUE), ConfigureEvent(FALSE)>>
           /\ f \in 1 .. 3 => rsts = {}
           /\ f \in 1 .. 4 => Driven(wire, "rst") = {}
           /\ f \in 1 .. 5 => Driven(wire, "dc") = {} /\ Driven(wire, "spi") = {}
           /\ f = 5 => Cardinality(Driven(wire, "rst")) < 2
           /\ f = 6 => IsPrefix(BusBytes(wire), ConstructionBytes) /\ Len(BusBytes(wire)) < 4
           /\ f = 7 => /\ IsPrefix(BusBytes(wire), ConstructionBytes)
                       /\ Len(BusBytes(wire)) \in 4 .. 7

\* C14's case: construction succeeds, the mode-select line acquired at the
\* third attempt, on a controller that power-up had left in extended mode
\* with the display inverted.
C14_Witness ==
    /\ call.op = "new" /\ call.ret = "ok"
    /\ call.a.dc.dir_fails = {1, 2}
    /\ BusBytes(wire) = ConstructionBytes
    /\ ctrl.h = 0 /\ ctrl.display = 4 /\ ctrl.vop = 40 /\ ctrl.bias = 4

\* C15: new_pin terminates, with at most 2 * max_attempts operations after
\* the export; set_direction is called at most max_attempts times; exactly
\* one wait of retry_timeout precedes every attempt except the first, and
\* no wait follows the final failed attempt; if export fails, new_pin
\* returns that error with no set_direction call and no wait.
C15_BoundedRetrySchedule ==
    (call.op = "new_pin") =>
        LET n == call.x
            tries == Attempts(wire)
            waits == Waits(wire)
        IN /\ Len(wire) <= 2 * n + 1
           /\ Cardinality(tries) <= n
           /\ \A j \in tries :
                 IF wire[j].level = 1
                 THEN wire[j - 1].kind = "export"
                 ELSE /\ wire[j - 1] = SleepEvent(call.y)
                      /\ wire[j - 2].kind = "set_direction"
                      /\ wire[j - 2].level = wire[j].level - 1
           /\ \A j \in waits : j < Len(wire) /\ wire[j + 1].kind = "set_direction"
           /\ Cardinality(waits) = (IF tries = {} THEN 0 ELSE Cardinality(tries) - 1)
           /\ call.a.export_fails =>
                 /\ call.ret = "PinError"
                 /\ call.fails = {"export"}
                 /\ tries = {} /\ waits = {}

\* C15's case: three attempts, all failing: two waits, none after the last
\* attempt.
C15_Witness ==
    /\ call.op = "new_pin" /\ call.x = 3
    /\ ~call.a.export_fails /\ call.a.dir_fails = {1, 2, 3}
    /\ call.ret = "PinError"
    /\ Cardinality(Attempts(wire)) = 3
    /\ Cardinality(Waits(wire)) = 2
    /\ wire[Len(wire)].kind = "set_direction"

\* C20: for every max_attempts >= 0, new_pin returns a line successfully
\* only if some set_direction call on that line succeeded during the call.
C20_SuccessMeansConfigured ==
    (call.op = "new_pin" /\ call.ret = "ok") =>
        \E j \in Attempts(wire) : wire[j].accepted = 1

\* C16: for every char_spacing s and every string, each character that
\* print(0, 0, text) places after advancing the cursor is at a column col
\* whose glyph right edge col * (6 + s) + 6 does not exceed the physical
\* width 84 (print having wrapped to column 0 of the next row otherwise).
C16_WrapsBeforeOverhang ==
    (call.op = "print") =>
        \A j \in 2 .. Len(placed) :
            placed[j].col * (6 + char_spacing) + 6 <= 84

\* C17: print_char uses table index i only if encoding[i] is the full
\* codepoint of c and no smaller index holds it; a character whose full
\* codepoint is not in the table gets the fallback glyph index.
C17_ExactCodepointMatch ==
    (call.op = "print_char") =>
        LET i == placed[1].index
        IN /\ i < Len(ENCODING) =>
                 /\ ENCODING[i + 1] = call.a
                 /\ \A j \in 0 .. (i - 1) : ENCODING[j + 1] # call.a
           /\ ~InTable(call.a) => i = 65533

\* C18: whenever update() returns success, the bus has accepted all 504
\* framebuffer bytes, whatever count the bus write reports.
C18_UpdateWritesAll ==
    (call.op = "update" /\ Returned(call)) =>
        /\ Len(wire) = 6
        /\ wire[6].accepted = 504

\* The logical pixel (x, y) of the buffer buf.
PixelOf(buf, o, x, y) ==
    OnScreen(o, x, y) /\ Bit(buf[ByteOf(o, x, y)], BitOf(o, x, y)) = 1

\* C19: print_char(col, row, c) changes only pixels of its own glyph cell:
\* every pixel whose logical coordinates lie outside
\* [col*(6+s), col*(6+s)+6) x [row*12, row*12+12) has the value it had
\* before the call, for both values of the inverse flag.
C19_OnlyOwnCell ==
    (call.op = "print_char") =>
        LET x0 == call.x * (6 + char_spacing)
            y0 == call.y * 12
        IN \A x \in 0 .. 83, y \in 0 .. 83 :
              ~(x \in x0 .. (x0 + 5) /\ y \in y0 .. (y0 + 11)) =>
                  (PixelOf(buffer, orient, x, y) <=> PixelOf(pre.buffer, orient, x, y))

====
